---------------------------- MODULE Spec2Model ----------------------------
(***************************************************************************)
(* A model of wdotool's session/protocol layer (src/src/wdotool_lib):      *)
(* the shared-memory allocator (shm.rs), the session state store and its   *)
(* event handlers (app_data.rs), the capture handshake and keyboard setup  *)
(* (helper.rs) and the input-injection primitives (mod.rs).                *)
(*                                                                         *)
(* Rust's Option<T> is modelled as a set with at most one element:         *)
(* None is {} and Some(x) is {x}.                                          *)
(***************************************************************************)
EXTENDS Integers, Sequences, FiniteSets, TLC

(***************************************************************************)
(* Bounds of the model.                                                    *)
(***************************************************************************)
\* u32 and i32 are modelled WordBits wide, usize and off_t 2*WordBits wide
\* (the 32/64-bit machine scaled down).
WordBits == 5
\* Operations one session (or one allocator harness) performs.
MaxOps == 2
\* wl_output globals the compositor may advertise.
MaxOutputs == 2

(***************************************************************************)
(* Program constants.                                                      *)
(***************************************************************************)
\* shm.rs:18  let mut retries = 100;
MaxRetries == 100
\* shm.rs:19  "/wl_shm-" has 8 characters
PrefixLen == 8
\* shm.rs:14  sample_string(.., 6)
RandLen == 6
\* mod.rs:112 / mod.rs:124  button codes
BTN_LEFT == 272
BTN_RIGHT == 273

(***************************************************************************)
(* Option and machine integers.                                            *)
(***************************************************************************)
None == {}
Some(x) == {x}
Unwrap(o) == CHOOSE x \in o : TRUE

U32Mod == 2 ^ WordBits
U32Max == U32Mod - 1
I32Max == 2 ^ (WordBits - 1) - 1
UsizeMod == 2 ^ (2 * WordBits)

\* `x as i32`: keep the low WordBits bits, read as two's complement.
AsI32(x) ==
    LET low == x % U32Mod
    IN  IF low > I32Max THEN low - U32Mod ELSE low

\* `x as usize` of an i32: sign extension to the usize width.
I32AsUsize(x) == x % UsizeMod

\* `x as libc::off_t` of a usize: same width, read as two's complement.
AsOffT(x) ==
    LET low == x % UsizeMod
    IN  IF 2 * low >= UsizeMod THEN low - UsizeMod ELSE low

\* usize multiplication (wrapping, as in a release build).
UsizeMul(a, b) == (a * b) % UsizeMod

VARIABLES
    pc,         \* position of the (single) caller thread
    ops,        \* operations started so far
    shmf,       \* create_shm_file's frame: size, retries, name, fd, ret (+ observers)
    os,         \* the OS: linked shm names, open descriptors, errno
    app_data,   \* AppData, the session state store
    call,       \* the running operation: its arguments and locals
    ret,        \* what the last finished operation returned
    trace,      \* requests issued and events dispatched by the running operation
    wire,       \* events the compositor has sent and the client has not dispatched
    comp,       \* the compositor: globals, capture frames, pool, protocol error
    conn        \* the transport: "ok" or "broken"

sess == <<app_data, call, ret, trace, wire, comp, conn>>
vars == <<pc, ops, shmf, os, app_data, call, ret, trace, wire, comp, conn>>

NoFd == -1

(***************************************************************************)
(* app_data.rs: the session state store.                                   *)
(***************************************************************************)
\* app_data.rs:60-71  #[derive(Default)] struct AppData.  A bound global is
\* represented by the registry name it was bound from; outputs is the
\* HashMap<u32, Output> as a set of [key, name] entries.
AppDataDefault ==
    [seat |-> None, vkm |-> None, vpm |-> None, keymap |-> None,
     screencopy_manager |-> None, outputs |-> {}, shm |-> None,
     screencopy |-> None, screencopy_in_progress |-> FALSE]

\* app_data.rs:51-58  Screencopy::new(frame)
ScreencopyNew(frame) == [frame |-> frame, buffer |-> None]

\* app_data.rs:34-39  Buffer::size(): 4 * height as usize * width as usize
BufferSize(buffer) == UsizeMul(UsizeMul(4, buffer.height), buffer.width)

\* A lookup that forgets to compare the name.
get_output_by_name_AnyName(a, name) ==
    {o.key : o \in {x \in a.outputs : x.name # None}}

\* app_data.rs:74-83  get_output_by_name: the outputs the loop may return
\* (HashMap iteration order is unspecified); {} is None.
get_output_by_name(a, name) ==
    {o.key : o \in {x \in a.outputs : x.name # None /\ Unwrap(x.name) = name}}

\* A wait that is content with one named output.
all_output_name_set_Some(a) == a.outputs = {} \/ \E o \in a.outputs : o.name # None

\* app_data.rs:85-92  all_output_name_set
all_output_name_set(a) == \A o \in a.outputs : o.name # None

\* app_data.rs:94-96  screencopy_buffer_set (after unwrapping screencopy)
screencopy_buffer_set(a) == Unwrap(a.screencopy).buffer # None

(***************************************************************************)
(* Events.  One shape for all: the object kind and id the event is for,    *)
(* the event name, an interface or output name, and its numbers.           *)
(***************************************************************************)
Ev(obj, id, ev, str, data) ==
    [obj |-> obj, id |-> id, ev |-> ev, str |-> str, data |-> data]

\* A handler's outcome: the new AppData, or a panic (an unwrap of None).
Done(a) == [ok |-> TRUE, app |-> a]
Panic(a) == [ok |-> FALSE, app |-> a]

\* app_data.rs:287-324  Dispatch<WlRegistry>: bind by interface name.
RegistryEvent(a, e) ==
    IF e.ev # "global" THEN Done(a)
    ELSE IF e.str = "wl_seat" THEN Done([a EXCEPT !.seat = Some(e.id)])
    ELSE IF e.str = "zwp_virtual_keyboard_manager_v1"
         THEN Done([a EXCEPT !.vkm = Some(e.id)])
    ELSE IF e.str = "zwlr_virtual_pointer_manager_v1"
         THEN Done([a EXCEPT !.vpm = Some(e.id)])
    ELSE IF e.str = "zwlr_screencopy_manager_v1"
         THEN Done([a EXCEPT !.screencopy_manager = Some(e.id)])
    ELSE IF e.str = "wl_output"
         THEN Done([a EXCEPT !.outputs =
                     {o \in @ : o.key # e.id} \cup {[key |-> e.id, name |-> None]}])
    ELSE IF e.str = "wl_shm" THEN Done([a EXCEPT !.shm = Some(e.id)])
    ELSE Done(a)

\* app_data.rs:155-169  Dispatch<WlOutput>: the Name event names the output.
OutputEvent(a, e) ==
    IF e.ev # "name" THEN Done(a)
    ELSE IF \A o \in a.outputs : o.key # e.id THEN Panic(a)
    ELSE Done([a EXCEPT !.outputs =
                 {o \in @ : o.key # e.id} \cup {[key |-> e.id, name |-> Some(e.str)]}])

\* app_data.rs:187  which frame events record a buffer description.
IsBufferEvent(ev) == ev = "buffer"

\* A handler for which no event clears the flag.
IsReadyEvent_Never(ev) == FALSE

\* A handler that takes failed for ready.
IsReadyEvent_OrFailed(ev) == ev \in {"ready", "failed"}

\* app_data.rs:194  which frame events clear the in-flight flag.
IsReadyEvent(ev) == ev = "ready"

\* app_data.rs:171-204  Dispatch<ZwlrScreencopyFrameV1>
FrameEvent(a, e) ==
    IF IsBufferEvent(e.ev)
    THEN IF a.screencopy = None THEN Panic(a)
         ELSE Done([a EXCEPT !.screencopy =
                      Some([Unwrap(@) EXCEPT !.buffer =
                              Some([width |-> e.data[1], height |-> e.data[2],
                                    stride |-> e.data[3]])])])
    ELSE IF IsReadyEvent(e.ev)
    THEN Done([a EXCEPT !.screencopy_in_progress = FALSE])
    ELSE Done(a)

\* app_data.rs:271-285  Dispatch<WlKeyboard>: the Keymap event is kept.
KeyboardEvent(a, e) ==
    IF e.ev = "keymap"
    THEN Done([a EXCEPT !.keymap =
                 Some([format |-> e.data[1], fd |-> e.data[2], size |-> e.data[3]])])
    ELSE Done(a)

\* One event to its handler; every other object's handler only logs
\* (app_data.rs:102-153, 206-269).
Handle(a, e) ==
    CASE e.obj = "registry" -> RegistryEvent(a, e)
      [] e.obj = "output"   -> OutputEvent(a, e)
      [] e.obj = "frame"    -> FrameEvent(a, e)
      [] e.obj = "keyboard" -> KeyboardEvent(a, e)
      [] OTHER              -> Done(a)

\* The events of a queue dispatched in order; a panic stops the dispatch.
RECURSIVE DispatchAll(_, _)
DispatchAll(a, evs) ==
    IF evs = <<>> THEN Done(a)
    ELSE LET r == Handle(a, Head(evs))
         IN  IF r.ok THEN DispatchAll(r.app, Tail(evs)) ELSE r

(***************************************************************************)
(* The trace of the running operation: requests and calls it issued, and   *)
(* the frame events it dispatched.                                         *)
(***************************************************************************)
T(k, a, b, c) == [k |-> k, a |-> a, b |-> b, c |-> c]

RECURSIVE FrameEvents(_)
FrameEvents(evs) ==
    IF evs = <<>> THEN <<>>
    ELSE LET e == Head(evs)
         IN  (IF e.obj # "frame" THEN <<>>
              ELSE IF e.ev = "buffer" THEN <<T(e.ev, e.id, e.data[1], e.data[2])>>
              ELSE <<T(e.ev, e.id, 0, 0)>>)
             \o FrameEvents(Tail(evs))

NoCall ==
    [op |-> "none", name |-> None, value |-> None, key |-> 0, ms |-> 0,
     width |-> 0, height |-> 0, stride |-> 0, file |-> NoFd, frame |-> 0]

NoRet == [k |-> "none", why |-> "", shape |-> <<>>, bytes |-> 0]
Ok(shape, bytes) == [k |-> "Ok", why |-> "", shape |-> shape, bytes |-> bytes]
Err(why) == [k |-> "Err", why |-> why, shape |-> <<>>, bytes |-> 0]

(***************************************************************************)
(* shm.rs: create_shm_file                                                 *)
(*                                                                         *)
(* A name is represented by its length (its characters are random).        *)
(* errno values: "EEXIST", "EOTHER" (any other OS error), "NONE".          *)
(* shmf.attempts, shmf.created and shmf.other observe the calls made: the  *)
(* number of shm_open calls, how many of them created a file, whether any  *)
(* shm_open failed for a reason other than EEXIST, and whether ftruncate   *)
(* failed.                                                                 *)
(***************************************************************************)
ShmFrame(size, caller) ==
    [size |-> size, retries |-> MaxRetries, name |-> PrefixLen, fd |-> NoFd,
     ret |-> "none", caller |-> caller,
     attempts |-> 0, created |-> 0, other |-> FALSE, truncfail |-> FALSE]

\* The descriptor number shm_open returns: the lowest one not open.
FreshFd == CHOOSE n \in 3..(3 + Cardinality(os.open)) :
               /\ n \notin {f.fd : f \in os.open}
               /\ \A m \in 3..(n - 1) : m \in {f.fd : f \in os.open}

\* shm.rs:13-15  randname(): 6 more characters
randname == RandLen

\* shm.rs:21  name.push_str(&randname())
PushName(name) == name + randname

\* A loop that runs once more.
LoopGuard_OffByOne(retries) == retries >= 0

\* shm.rs:20  while retries > 0
LoopGuard(retries) == retries > 0

\* shm.rs:20-25: loop test, name generation and shm_open(O_CREAT | O_EXCL).
\* The OS answers with a new descriptor, EEXIST or another error.
shm_open_ok ==
    /\ pc = "shm_loop"
    /\ LoopGuard(shmf.retries)
    /\ LET n == PushName(shmf.name)
           fd == FreshFd
       IN  /\ shmf' = [shmf EXCEPT !.name = n, !.fd = fd,
                                   !.attempts = @ + 1, !.created = @ + 1]
           /\ os' = [os EXCEPT !.names = @ \cup {n},
                               !.open = @ \cup {[fd |-> fd, size |-> 0]}]
    /\ pc' = "shm_unlink"
    /\ UNCHANGED <<ops, sess>>

\* shm.rs:26 and 36: fd < 0, whatever errno says: retries -= 1 and loop again.
shm_open_fail ==
    /\ pc = "shm_loop"
    /\ LoopGuard(shmf.retries)
    /\ \E e \in {"EEXIST", "EOTHER"} :
          /\ os' = [os EXCEPT !.errno = e]
          /\ shmf' = [shmf EXCEPT !.name = PushName(@),
                                  !.retries = @ - 1,
                                  !.attempts = @ + 1,
                                  !.other = @ \/ e # "EEXIST"]
    /\ pc' = "shm_loop"
    /\ UNCHANGED <<ops, sess>>

\* An allocator that forgets the unlink.
Unlink_Skipped(names, n) == names

\* shm.rs:27  shm_unlink(cname) right after a successful creation.
Unlink(names, n) == names \ {n}

shm_unlink ==
    /\ pc = "shm_unlink"
    /\ os' = [os EXCEPT !.names = Unlink(@, shmf.name)]
    /\ pc' = "shm_ftruncate"
    /\ UNCHANGED <<ops, shmf, sess>>

\* shm.rs:28-30  ftruncate(fd, size as off_t) == 0: return Ok(File::from_raw_fd(fd))
ftruncate_ok ==
    /\ pc = "shm_ftruncate"
    /\ AsOffT(shmf.size) >= 0
    /\ os' = [os EXCEPT !.open =
                 (@ \ {f \in @ : f.fd = shmf.fd})
                    \cup {[fd |-> shmf.fd, size |-> AsOffT(shmf.size)]}]
    /\ shmf' = [shmf EXCEPT !.ret = "Ok"]
    /\ pc' = "shm_return"
    /\ UNCHANGED <<ops, sess>>

\* shm.rs:31-33  ftruncate failed: break (the descriptor stays open).
FdAfterTruncateFailure(open, fd) == open

ftruncate_fail ==
    /\ pc = "shm_ftruncate"
    /\ os' = [os EXCEPT !.errno = "EOTHER",
                        !.open = FdAfterTruncateFailure(@, shmf.fd)]
    /\ shmf' = [shmf EXCEPT !.truncfail = TRUE]
    /\ pc' = "shm_after_loop"
    /\ UNCHANGED <<ops, sess>>

\* shm.rs:20  the loop ends with retries = 0.
shm_exhausted ==
    /\ pc = "shm_loop"
    /\ ~LoopGuard(shmf.retries)
    /\ pc' = "shm_after_loop"
    /\ UNCHANGED <<ops, shmf, os, sess>>

\* shm.rs:38-42  the failure is chosen from errno as it stands after the loop.
FailureFor(errno) ==
    IF errno # "EEXIST" THEN "ErrOs" ELSE "ErrExhausted"

shm_bail ==
    /\ pc = "shm_after_loop"
    /\ shmf' = [shmf EXCEPT !.ret = FailureFor(os.errno)]
    /\ pc' = "shm_return"
    /\ UNCHANGED <<ops, os, sess>>

create_shm_file ==
    \/ shm_open_ok
    \/ shm_open_fail
    \/ shm_unlink
    \/ ftruncate_ok
    \/ ftruncate_fail
    \/ shm_exhausted
    \/ shm_bail

(***************************************************************************)
(* The allocator on its own: a caller that asks for a size, gets the       *)
(* result and drops the File it was given.                                 *)
(***************************************************************************)
ShmSizes == {4, 8, UsizeMod - 4}

OsInit == [names |-> {}, open |-> {}, errno |-> "NONE"]

\* The compositor: the globals it advertises, whether its seat has a keyboard
\* with a keymap, the capture frames it knows, the size of the pool last
\* created, and whether it has raised a protocol error.
CompInit(globals, keymap) ==
    [globals |-> globals, keymap |-> keymap, frames |-> {}, named |-> {},
     pool |-> 0, error |-> FALSE]

\* Dropping a std::fs::File closes its descriptor.
CloseFd(open, fd) == {f \in open : f.fd # fd}

HarnessCall ==
    /\ pc = "harness"
    /\ ops < MaxOps
    /\ \E size \in ShmSizes : shmf' = ShmFrame(size, "harness")
    /\ ops' = ops + 1
    /\ pc' = "shm_loop"
    /\ UNCHANGED <<os, sess>>

HarnessReturn ==
    /\ pc = "shm_return"
    /\ shmf.caller = "harness"
    /\ os' = [os EXCEPT !.open = IF shmf.ret = "Ok" THEN CloseFd(@, shmf.fd) ELSE @]
    /\ shmf' = ShmFrame(0, "harness")
    /\ pc' = "harness"
    /\ UNCHANGED <<ops, sess>>

(***************************************************************************)
(* The compositor and the transport.                                       *)
(***************************************************************************)
Interfaces ==
    <<"wl_seat", "zwp_virtual_keyboard_manager_v1",
      "zwlr_virtual_pointer_manager_v1", "zwlr_screencopy_manager_v1", "wl_shm">>

OutputNames == <<"eDP-1", "HDMI-1", "DP-1", "DP-2">>

\* Registry names: 1..5 for the singletons, 6.. for the outputs.
NumSingletons == Len(Interfaces)
OutputKey(i) == NumSingletons + i
InterfaceOf(n) == IF n <= NumSingletons THEN Interfaces[n] ELSE "wl_output"

\* Every set of globals a compositor may advertise.
GlobalSets ==
    {present \cup {OutputKey(i) : i \in 1..n} :
        present \in SUBSET (1..NumSingletons), n \in 0..MaxOutputs}

\* The global events of a registry, by registry name.
RECURSIVE GlobalEvents(_)
GlobalEvents(names) ==
    IF names = {} THEN <<>>
    ELSE LET n == CHOOSE x \in names : \A y \in names : x <= y
         IN  <<Ev("registry", n, "global", InterfaceOf(n), <<>>)>>
             \o GlobalEvents(names \ {n})

\* wl_keyboard.keymap_format: no_keymap (0) and xkb_v1 (1).
KeymapFormats == {0, 1}

\* The keymap event of the seat's keyboard: a format, a descriptor, a size.
KeymapEvent(format) == Ev("keyboard", 0, "keymap", "", <<format, 0, 8>>)

\* The buffer descriptions a compositor may advertise: (width, height, stride).
BigWidth == 2 ^ (WordBits - 3)
BufferDescriptions ==
    {<<1, 1, 4>>, <<2, 1, 8>>, <<1, 1, 8>>, <<BigWidth, 1, 4 * BigWidth>>}

Up == conn = "ok" /\ ~comp.error

\* wl_output: the name event of a bound output.
CompositorOutputName ==
    /\ Up
    /\ \E o \in app_data.outputs :
          /\ o.key \notin comp.named
          /\ wire' = Append(wire, Ev("output", o.key, "name",
                                      OutputNames[o.key - NumSingletons], <<>>))
          /\ comp' = [comp EXCEPT !.named = @ \cup {o.key}]
    /\ UNCHANGED <<pc, ops, shmf, os, app_data, call, ret, trace, conn>>

\* wl_registry: a global advertised after the initial burst (an output plugged
\* in, a manager or wl_shm that comes up late).  Outputs come in key order.
LateGlobals(globals) ==
    {n \in 1..OutputKey(MaxOutputs) :
        /\ n \notin globals
        /\ n > NumSingletons + 1 => (n - 1) \in globals}

CompositorGlobal ==
    /\ Up
    /\ pc \notin {"connect", "exited", "panicked"}
    /\ \E n \in LateGlobals(comp.globals) :
          /\ wire' = Append(wire, Ev("registry", n, "global", InterfaceOf(n), <<>>))
          /\ comp' = [comp EXCEPT !.globals = @ \cup {n}]
    /\ UNCHANGED <<pc, ops, shmf, os, app_data, call, ret, trace, conn>>

SetFrame(frames, id, st) == {f \in frames : f.id # id} \cup {[id |-> id, st |-> st]}

\* A compositor that describes the buffer once more on a frame it has
\* already reported ready.
CompositorBuffer_Late ==
    /\ Up
    /\ \E f \in comp.frames, d \in BufferDescriptions :
          /\ f.st \in {"requested", "finished"}
          /\ wire' = Append(wire, Ev("frame", f.id, "buffer", "", d))
          /\ comp' = [comp EXCEPT !.frames =
                        SetFrame(@, f.id, IF f.st = "requested" THEN "described"
                                          ELSE "described again")]
    /\ UNCHANGED <<pc, ops, shmf, os, app_data, call, ret, trace, conn>>

\* zwlr_screencopy_frame_v1: the buffer event answers capture_output.
CompositorBuffer ==
    /\ Up
    /\ \E f \in comp.frames, d \in BufferDescriptions :
          /\ f.st = "requested"
          /\ wire' = Append(wire, Ev("frame", f.id, "buffer", "", d))
          /\ comp' = [comp EXCEPT !.frames = SetFrame(@, f.id, "described")]
    /\ UNCHANGED <<pc, ops, shmf, os, app_data, call, ret, trace, conn>>

\* zwlr_screencopy_frame_v1: flags and ready answer copy.
CompositorReady ==
    /\ Up
    /\ \E f \in comp.frames :
          /\ f.st = "copying"
          /\ wire' = wire \o <<Ev("frame", f.id, "flags", "", <<>>),
                               Ev("frame", f.id, "ready", "", <<>>)>>
          /\ comp' = [comp EXCEPT !.frames = SetFrame(@, f.id, "finished")]
    /\ UNCHANGED <<pc, ops, shmf, os, app_data, call, ret, trace, conn>>

\* zwlr_screencopy_frame_v1: failed answers copy.
CompositorFailed ==
    /\ Up
    /\ \E f \in comp.frames :
          /\ f.st = "copying"
          /\ wire' = Append(wire, Ev("frame", f.id, "failed", "", <<>>))
          /\ comp' = [comp EXCEPT !.frames = SetFrame(@, f.id, "failed")]
    /\ UNCHANGED <<pc, ops, shmf, os, app_data, call, ret, trace, conn>>

Compositor ==
    \/ CompositorGlobal
    \/ CompositorOutputName
    \/ CompositorBuffer
    \/ CompositorReady
    \/ CompositorFailed

\* EventQueue::roundtrip returning Ok: every event sent so far is dispatched.
RoundtripOk(next) ==
    /\ Up
    /\ LET r == DispatchAll(app_data, wire)
       IN  /\ app_data' = r.app
           /\ pc' = IF r.ok THEN next ELSE "panicked"
    /\ trace' = trace \o FrameEvents(wire) \o <<T("roundtrip", 0, 0, 0)>>
    /\ wire' = <<>>
    /\ UNCHANGED <<comp, conn>>

\* EventQueue::blocking_dispatch returning Ok: it waits for events.
BlockingDispatchOk(next) ==
    /\ Up
    /\ wire # <<>>
    /\ LET r == DispatchAll(app_data, wire)
       IN  /\ app_data' = r.app
           /\ pc' = IF r.ok THEN next ELSE "panicked"
    /\ trace' = trace \o FrameEvents(wire)
    /\ wire' = <<>>
    /\ UNCHANGED <<comp, conn>>

\* A round-trip or dispatch failing: the connection is dead from then on.
TransportErr ==
    /\ conn' = "broken"
    /\ UNCHANGED <<app_data, wire, comp>>

\* A function returning r: its locals are dropped (a File closes its descriptor).
Exit(r) ==
    /\ ret' = r
    /\ pc' = "returned"
    /\ os' = [os EXCEPT !.open = CloseFd(@, call.file)]

(***************************************************************************)
(* mod.rs:47-83, helper.rs:31-79, lib.rs:16-20: building the session.      *)
(***************************************************************************)
\* helper.rs:31-52 connect_wayland, then mod.rs:54 get_registry.
connect_wayland ==
    /\ pc = "connect"
    /\ \/ /\ ret' = Err("connect")
          /\ pc' = "exited"
          /\ UNCHANGED wire
       \/ /\ wire' = GlobalEvents(comp.globals)
          /\ pc' = "registry_roundtrip"
          /\ UNCHANGED ret
    /\ UNCHANGED <<ops, shmf, os, app_data, call, trace, comp, conn>>

\* roundtrip(..).unwrap(): a transport error is a panic.
RoundtripUnwrap(next) ==
    \/ /\ RoundtripOk(next)
       /\ UNCHANGED <<ops, shmf, os, call, ret>>
    \/ /\ TransportErr
       /\ pc' = "panicked"
       /\ UNCHANGED <<ops, shmf, os, call, ret, trace>>

\* mod.rs:56
registry_roundtrip == pc = "registry_roundtrip" /\ RoundtripUnwrap("get_keyboard")

\* helper.rs:60  app_data.seat.as_ref().unwrap().get_keyboard(qh, ())
get_keyboard ==
    /\ pc = "get_keyboard"
    /\ IF app_data.seat = None
       THEN pc' = "panicked" /\ UNCHANGED wire
       ELSE /\ pc' = "keyboard_roundtrip"
            /\ \E format \in KeymapFormats :
                  wire' = IF comp.keymap /\ Up
                          THEN Append(wire, KeymapEvent(format))
                          ELSE wire
    /\ UNCHANGED <<ops, shmf, os, app_data, call, ret, trace, comp, conn>>

\* helper.rs:61
keyboard_roundtrip == pc = "keyboard_roundtrip" /\ RoundtripUnwrap("upload_keymap")

\* helper.rs:75  the format sent is the constant KeymapFormat::XkbV1 (1).
XkbV1 == 1

\* helper.rs:63-75  create_virtual_keyboard, take the keymap and upload it.
upload_keymap ==
    /\ pc = "upload_keymap"
    /\ IF app_data.vkm = None \/ app_data.seat = None \/ app_data.keymap = None
       THEN pc' = "panicked" /\ UNCHANGED <<app_data, trace>>
       ELSE /\ app_data' = [app_data EXCEPT !.keymap = None]
            /\ trace' = trace \o
                 <<T("keymap", XkbV1, Unwrap(app_data.keymap).fd,
                     Unwrap(app_data.keymap).size)>>
            /\ pc' = "keymap_roundtrip"
    /\ UNCHANGED <<ops, shmf, os, call, ret, wire, comp, conn>>

\* helper.rs:76
keymap_roundtrip == pc = "keymap_roundtrip" /\ RoundtripUnwrap("create_virtual_pointer")

\* mod.rs:62-66  app_data.vpm.as_ref().unwrap().create_virtual_pointer(..)
create_virtual_pointer ==
    /\ pc = "create_virtual_pointer"
    /\ pc' = IF app_data.vpm = None THEN "panicked" ELSE "pointer_roundtrip"
    /\ UNCHANGED <<ops, shmf, os, sess>>

\* mod.rs:67; Wdotool::connect returns and lib.rs:18 calls wait_ouput_detected.
pointer_roundtrip == pc = "pointer_roundtrip" /\ RoundtripUnwrap("wait_ouput_detected")

\* mod.rs:78-83  wait_ouput_detected
wait_ouput_detected ==
    /\ pc = "wait_ouput_detected"
    /\ \/ /\ all_output_name_set(app_data)
          /\ pc' = "idle"
          /\ trace' = <<>>
          /\ UNCHANGED <<app_data, ret, wire, comp, conn>>
       \/ /\ ~all_output_name_set(app_data)
          /\ BlockingDispatchOk("wait_ouput_detected")
          /\ UNCHANGED ret
       \/ /\ ~all_output_name_set(app_data)
          /\ TransportErr
          /\ ret' = Err("transport")
          /\ pc' = "exited"
          /\ UNCHANGED trace
    /\ UNCHANGED <<ops, shmf, os, call>>

Bootstrap ==
    \/ connect_wayland
    \/ registry_roundtrip
    \/ get_keyboard
    \/ keyboard_roundtrip
    \/ upload_keymap
    \/ keymap_roundtrip
    \/ create_virtual_pointer
    \/ pointer_roundtrip
    \/ wait_ouput_detected

(***************************************************************************)
(* mod.rs:17-36  UIntValue and UIntValue::get                              *)
(***************************************************************************)
UInt(v) == [range |-> FALSE, min |-> v, max |-> v]
UIntRange(min, max) == [range |-> TRUE, min |-> min, max |-> max]

\* rand_distr's Normal::new rejects only a standard deviation that is not
\* finite (or, in older releases, negative); a u32 cast to f32 is neither.
NormalNewFails(mean, std_dev) == std_dev < 0

\* normal.sample(..) as u32: the cast saturates, so any u32 may come out;
\* with a zero standard deviation the sample is the mean.
Samples(mean, std_dev) == IF std_dev = 0 THEN {mean} ELSE 0..U32Max

\* mod.rs:32  v.max(*min).min(*max)
Clamp(v, min, max) ==
    LET lo == IF v > min THEN v ELSE min
    IN  IF lo < max THEN lo ELSE max

\* mod.rs:23-36  the outcomes of get(): Ok(v), Err (sampling) or a panic (an
\* arithmetic overflow in a build with overflow checks; it wraps otherwise).
UIntValue_get(value) ==
    IF ~value.range THEN {[k |-> "Ok", v |-> value.min]}
    ELSE LET sum == value.min + value.max
             diff == value.max - value.min
             mean == (sum % U32Mod) \div 2
             std_dev == (diff % U32Mod) \div 2
         IN  (IF sum > U32Max \/ diff < 0 THEN {[k |-> "Panic", v |-> 0]} ELSE {})
             \cup
             (IF NormalNewFails(mean, std_dev) THEN {[k |-> "Err", v |-> 0]}
              ELSE {[k |-> "Ok", v |-> Clamp(s, value.min, value.max)] :
                       s \in Samples(mean, std_dev)})

(***************************************************************************)
(* The caller: operations on a built session, one at a time.               *)
(***************************************************************************)
ScreenNames == {None, Some("eDP-1"), Some("VGA-1")}
Durations == {UInt(2), UIntRange(1, 2)}
Keys == {30}

\* lib.rs:92-100  Wdotool.screenshot(screen_name)
call_screenshot ==
    /\ pc = "idle"
    /\ ops < MaxOps
    /\ \E n \in ScreenNames : call' = [NoCall EXCEPT !.op = "screenshot", !.name = n]
    /\ ops' = ops + 1
    /\ pc' = "screenshot"
    /\ UNCHANGED <<shmf, os, app_data, ret, trace, wire, comp, conn>>

\* lib.rs:46-58, 61-73  Wdotool.left_click / right_click(duration_ms, duration_ms_max)
call_click ==
    /\ pc = "idle"
    /\ ops < MaxOps
    /\ \E o \in {"left_click", "right_click"}, d \in Durations :
          call' = [NoCall EXCEPT !.op = o, !.value = Some(d)]
    /\ ops' = ops + 1
    /\ pc' = "click"
    /\ UNCHANGED <<shmf, os, app_data, ret, trace, wire, comp, conn>>

\* lib.rs:75-90  Wdotool.key_press(key, duration_ms, duration_ms_max)
call_key_press ==
    /\ pc = "idle"
    /\ ops < MaxOps
    /\ \E k \in Keys, d \in Durations :
          call' = [NoCall EXCEPT !.op = "key_press", !.key = k, !.value = Some(d)]
    /\ ops' = ops + 1
    /\ pc' = "key_press"
    /\ UNCHANGED <<shmf, os, app_data, ret, trace, wire, comp, conn>>

\* The caller takes the result; the operation's frame is gone.
caller_resumes ==
    /\ pc = "returned"
    /\ pc' = "idle"
    /\ call' = NoCall
    /\ ret' = NoRet
    /\ trace' = <<>>
    /\ UNCHANGED <<ops, shmf, os, app_data, wire, comp, conn>>

(***************************************************************************)
(* helper.rs:81-162  screenshot                                            *)
(***************************************************************************)
\* helper.rs:87-105  the output to capture: the keys the match may yield,
\* or the error it returns.
ResolveOutput(a, output_name) ==
    IF output_name # None
    THEN LET found == get_output_by_name(a, Unwrap(output_name))
         IN  IF found = {} THEN [err |-> "no WLOutput with name", out |-> {}]
             ELSE [err |-> "", out |-> found]
    ELSE IF Cardinality(a.outputs) > 1
         THEN [err |-> "more that one WLOuput set", out |-> {}]
         ELSE IF a.outputs = {}
              THEN [err |-> "at least one display need to be set", out |-> {}]
              ELSE [err |-> "", out |-> {o.key : o \in a.outputs}]

\* helper.rs:87-112  resolve the output, capture_output, store the Screencopy.
screenshot_capture_output ==
    /\ pc = "screenshot"
    /\ LET r == ResolveOutput(app_data, call.name)
       IN  IF r.err # ""
           THEN /\ Exit(Err(r.err))
                /\ UNCHANGED <<app_data, call, trace, comp>>
           ELSE IF app_data.screencopy_manager = None
           THEN /\ Exit(Err("no screencopy manager"))
                /\ UNCHANGED <<app_data, call, trace, comp>>
           ELSE \E out \in r.out :
                  /\ app_data' = [app_data EXCEPT
                                    !.screencopy = Some(ScreencopyNew(ops))]
                  /\ call' = [call EXCEPT !.frame = ops]
                  /\ trace' = trace \o <<T("capture_output", ops, out, 0)>>
                  /\ comp' = IF Up
                             THEN [comp EXCEPT !.frames = SetFrame(@, ops, "requested")]
                             ELSE comp
                  /\ pc' = "capture_roundtrip"
                  /\ UNCHANGED <<ret, os>>
    /\ UNCHANGED <<ops, shmf, wire, conn>>

\* `event_queue.roundtrip(app_data)?` and `blocking_dispatch(app_data)?`
RoundtripTry(next) ==
    \/ /\ RoundtripOk(next)
       /\ UNCHANGED <<ops, shmf, os, call, ret>>
    \/ /\ TransportErr
       /\ Exit(Err("transport"))
       /\ UNCHANGED <<ops, shmf, call, trace>>

BlockingDispatchTry(next) ==
    \/ /\ BlockingDispatchOk(next)
       /\ UNCHANGED <<ops, shmf, os, call, ret>>
    \/ /\ TransportErr
       /\ Exit(Err("transport"))
       /\ UNCHANGED <<ops, shmf, call, trace>>

\* helper.rs:113
capture_roundtrip == pc = "capture_roundtrip" /\ RoundtripTry("wait_buffer")

\* helper.rs:115-117  while !app_data.screencopy_buffer_set() { blocking_dispatch? }
wait_buffer ==
    /\ pc = "wait_buffer"
    /\ ~screencopy_buffer_set(app_data)
    /\ BlockingDispatchTry("wait_buffer")

\* helper.rs:119-131  the negotiated geometry, then create_shm_file(size()).
screenshot_create_shm_file ==
    /\ pc = "wait_buffer"
    /\ screencopy_buffer_set(app_data)
    /\ LET buffer_param == Unwrap(Unwrap(app_data.screencopy).buffer)
       IN  /\ call' = [call EXCEPT !.width = AsI32(buffer_param.width),
                                   !.height = AsI32(buffer_param.height),
                                   !.stride = AsI32(buffer_param.stride)]
           /\ shmf' = ShmFrame(BufferSize(buffer_param), "screenshot")
           /\ trace' = trace \o <<T("create_shm_file", BufferSize(buffer_param), 0, 0)>>
    /\ pc' = "shm_loop"
    /\ UNCHANGED <<ops, os, app_data, ret, wire, comp, conn>>

\* helper.rs:138  buffer_param.size() as i32
PoolSize(buffer_param) == AsI32(BufferSize(buffer_param))

\* helper.rs:131-138  `?` on the allocator's result, then create_pool.  The
\* compositor refuses a pool of no positive size with a protocol error.
screenshot_create_pool ==
    /\ pc = "shm_return"
    /\ shmf.caller = "screenshot"
    /\ IF shmf.ret # "Ok"
       THEN /\ Exit(Err(shmf.ret))
            /\ UNCHANGED <<call, trace, comp>>
       ELSE IF app_data.shm = None
       THEN /\ ret' = Err("no shared memory")
            /\ pc' = "returned"
            /\ os' = [os EXCEPT !.open = CloseFd(@, shmf.fd)]
            /\ call' = [call EXCEPT !.file = shmf.fd]
            /\ UNCHANGED <<trace, comp>>
       ELSE LET size == PoolSize(Unwrap(Unwrap(app_data.screencopy).buffer))
            IN  /\ call' = [call EXCEPT !.file = shmf.fd]
                /\ trace' = trace \o <<T("create_pool", shmf.fd, size, 0)>>
                /\ comp' = IF ~Up THEN comp
                           ELSE IF size <= 0 THEN [comp EXCEPT !.error = TRUE]
                           ELSE [comp EXCEPT !.pool = size]
                /\ pc' = "pool_roundtrip"
                /\ UNCHANGED <<os, ret>>
    /\ shmf' = ShmFrame(0, "harness")
    /\ UNCHANGED <<ops, app_data, wire, conn>>

\* A call that goes from the pool straight to the copy.
pool_roundtrip_ThenCopy == pc = "pool_roundtrip" /\ RoundtripTry("copy")

\* helper.rs:140
pool_roundtrip == pc = "pool_roundtrip" /\ RoundtripTry("create_buffer")

\* wl_shm_pool.create_buffer as the compositor checks it: a buffer that has
\* no positive size or does not lie inside the pool is a protocol error.
BufferFits(offset, width, height, stride, pool) ==
    /\ offset >= 0 /\ width > 0 /\ height > 0 /\ stride >= width
    /\ offset + stride * height <= pool

\* helper.rs:142-143  create_buffer(0, width, height, stride, Xrgb8888)
screenshot_create_buffer ==
    /\ pc = "create_buffer"
    /\ trace' = trace \o <<T("create_buffer", call.width, call.height, call.stride)>>
    /\ comp' = IF ~Up \/ BufferFits(0, call.width, call.height, call.stride, comp.pool)
               THEN comp
               ELSE [comp EXCEPT !.error = TRUE]
    /\ pc' = "buffer_roundtrip"
    /\ UNCHANGED <<ops, shmf, os, app_data, call, ret, wire, conn>>

\* helper.rs:144
buffer_roundtrip == pc = "buffer_roundtrip" /\ RoundtripTry("copy")

\* helper.rs:146-147  frame.copy(&buffer); screencopy_in_progress = true
screenshot_copy ==
    /\ pc = "copy"
    /\ LET frame == Unwrap(app_data.screencopy).frame
       IN  /\ trace' = trace \o <<T("copy", frame, 0, 0)>>
           /\ comp' = IF Up THEN [comp EXCEPT !.frames = SetFrame(@, frame, "copying")]
                      ELSE comp
    /\ app_data' = [app_data EXCEPT !.screencopy_in_progress = TRUE]
    /\ pc' = "wait_ready"
    /\ UNCHANGED <<ops, shmf, os, call, ret, wire, conn>>

\* helper.rs:149-151  while app_data.screencopy_in_progress { blocking_dispatch? }
wait_ready ==
    /\ pc = "wait_ready"
    /\ app_data.screencopy_in_progress
    /\ BlockingDispatchTry("wait_ready")

\* helper.rs:156  height as usize * width as usize * 4
ReadLen(height, width) ==
    UsizeMul(UsizeMul(I32AsUsize(height), I32AsUsize(width)), 4)

\* helper.rs:153-161  destroy the frame, clear the request, read the pixels.
screenshot_read ==
    /\ pc = "wait_ready"
    /\ ~app_data.screencopy_in_progress
    /\ LET frame == Unwrap(app_data.screencopy).frame
           len == ReadLen(call.height, call.width)
           file == CHOOSE f \in os.open : f.fd = call.file
       IN  /\ trace' = trace \o <<T("destroy", frame, 0, 0), T("read_exact", len, 0, 0)>>
           /\ comp' = IF Up THEN [comp EXCEPT !.frames = {f \in @ : f.id # frame}]
                      ELSE comp
           /\ IF len > file.size
              THEN Exit(Err("read_exact"))
              ELSE Exit(Ok(<<I32AsUsize(call.height), I32AsUsize(call.width), 4>>, len))
    /\ app_data' = [app_data EXCEPT !.screencopy = None]
    /\ UNCHANGED <<ops, shmf, call, wire, conn>>

screenshot ==
    \/ screenshot_capture_output
    \/ capture_roundtrip
    \/ wait_buffer
    \/ screenshot_create_shm_file
    \/ screenshot_create_pool
    \/ pool_roundtrip
    \/ screenshot_create_buffer
    \/ buffer_roundtrip
    \/ screenshot_copy
    \/ wait_ready
    \/ screenshot_read

(***************************************************************************)
(* mod.rs:109-145  left_click, right_click, key_press                      *)
(***************************************************************************)
\* mod.rs:112, 124  the button of the operation
ButtonOf(op) == IF op = "left_click" THEN BTN_LEFT ELSE BTN_RIGHT

\* A release that always names the left button.
ReleaseCode_Left(code) == BTN_LEFT

\* mod.rs:116, 128, 141  the code the release carries
ReleaseCode(code) == code

\* mod.rs:114, 126, 139  the time slept for a resolved duration
SleepMs(duration_ms) == duration_ms

\* mod.rs:110-112, 122-124  duration_ms.get()?, then the button press.
click_press ==
    /\ pc = "click"
    /\ \E o \in UIntValue_get(Unwrap(call.value)) :
          CASE o.k = "Ok" ->
                 /\ call' = [call EXCEPT !.ms = o.v, !.key = ButtonOf(call.op)]
                 /\ trace' = trace \o <<T("press", ButtonOf(call.op), 0, 0)>>
                 /\ pc' = "click_roundtrip"
                 /\ UNCHANGED <<ret, os>>
            [] o.k = "Err" ->
                 /\ Exit(Err("sampling"))
                 /\ UNCHANGED <<call, trace>>
            [] OTHER ->
                 /\ pc' = "panicked"
                 /\ UNCHANGED <<call, trace, ret, os>>
    /\ UNCHANGED <<ops, shmf, app_data, wire, comp, conn>>

\* mod.rs:113, 125
click_roundtrip == pc = "click_roundtrip" /\ RoundtripTry("click_release")

\* mod.rs:114-116, 126-128  sleep, then the button release.
click_release ==
    /\ pc = "click_release"
    /\ trace' = trace \o <<T("sleep", SleepMs(call.ms), 0, 0),
                           T("release", ReleaseCode(call.key), 0, 0)>>
    /\ pc' = "release_roundtrip"
    /\ UNCHANGED <<ops, shmf, os, app_data, call, ret, wire, comp, conn>>

\* mod.rs:117-118, 129-130, 142-144  the last round-trip, then Ok(()).
release_roundtrip ==
    /\ pc = "release_roundtrip"
    /\ \/ /\ RoundtripOk("returned")
          /\ ret' = IF pc' = "returned" THEN Ok(<<>>, 0) ELSE ret
          /\ UNCHANGED <<ops, shmf, os, call>>
       \/ /\ TransportErr
          /\ Exit(Err("transport"))
          /\ UNCHANGED <<ops, shmf, call, trace>>

\* mod.rs:134  self.keyboard.key(0, key, 1)
key_press_press ==
    /\ pc = "key_press"
    /\ trace' = trace \o <<T("press", call.key, 0, 0)>>
    /\ pc' = "key_roundtrip"
    /\ UNCHANGED <<ops, shmf, os, app_data, call, ret, wire, comp, conn>>

\* mod.rs:135
key_roundtrip == pc = "key_roundtrip" /\ RoundtripTry("key_release")

\* mod.rs:138-141  duration_ms.get()?, sleep, then the key release.
key_press_release ==
    /\ pc = "key_release"
    /\ \E o \in UIntValue_get(Unwrap(call.value)) :
          CASE o.k = "Ok" ->
                 /\ call' = [call EXCEPT !.ms = o.v]
                 /\ trace' = trace \o <<T("sleep", SleepMs(o.v), 0, 0),
                                        T("release", ReleaseCode(call.key), 0, 0)>>
                 /\ pc' = "release_roundtrip"
                 /\ UNCHANGED <<ret, os>>
            [] o.k = "Err" ->
                 /\ Exit(Err("sampling"))
                 /\ UNCHANGED <<call, trace>>
            [] OTHER ->
                 /\ pc' = "panicked"
                 /\ UNCHANGED <<call, trace, ret, os>>
    /\ UNCHANGED <<ops, shmf, app_data, wire, comp, conn>>

Input ==
    \/ click_press
    \/ click_roundtrip
    \/ click_release
    \/ release_roundtrip
    \/ key_press_press
    \/ key_roundtrip
    \/ key_press_release

(***************************************************************************)
(* The session: built against one compositor, then used by one caller.     *)
(***************************************************************************)
Init ==
    /\ pc = "connect"
    /\ ops = 0
    /\ shmf = ShmFrame(0, "harness")
    /\ os = OsInit
    /\ app_data = AppDataDefault
    /\ call = NoCall
    /\ ret = NoRet
    /\ trace = <<>>
    /\ wire = <<>>
    /\ \E g \in GlobalSets, k \in BOOLEAN : comp = CompInit(g, k)
    /\ conn = "ok"

Next ==
    \/ Bootstrap
    \/ Compositor
    \/ call_screenshot
    \/ call_click
    \/ call_key_press
    \/ caller_resumes
    \/ screenshot
    \/ create_shm_file
    \/ Input

Spec == Init /\ [][Next]_vars

InitShm ==
    /\ pc = "harness"
    /\ ops = 0
    /\ shmf = ShmFrame(0, "harness")
    /\ os = OsInit
    /\ app_data = AppDataDefault
    /\ call = NoCall
    /\ ret = NoRet
    /\ trace = <<>>
    /\ wire = <<>>
    /\ comp = CompInit({}, FALSE)
    /\ conn = "ok"

NextShm == HarnessCall \/ create_shm_file \/ HarnessReturn

SpecShm == InitShm /\ [][NextShm]_vars

(***************************************************************************)
(* UIntValue::get on its own: a value is given, get() is applied to it.    *)
(***************************************************************************)
\* mod.rs:17-20  every fixed value and every pair (min, max) of u32.
UIntValues ==
    {UInt(v) : v \in 0..U32Max}
        \cup {UIntRange(min, max) : min \in 0..U32Max, max \in 0..U32Max}

InitGet ==
    /\ pc = "get"
    /\ ops = 0
    /\ shmf = ShmFrame(0, "harness")
    /\ os = OsInit
    /\ app_data = AppDataDefault
    /\ \E value \in UIntValues : call = [NoCall EXCEPT !.op = "get", !.value = Some(value)]
    /\ ret = NoRet
    /\ trace = <<>>
    /\ wire = <<>>
    /\ comp = CompInit({}, FALSE)
    /\ conn = "ok"

\* mod.rs:23-36  value.get(): one of its outcomes.
get ==
    /\ pc = "get"
    /\ \E r \in UIntValue_get(Unwrap(call.value)) : ret' = r
    /\ pc' = "got"
    /\ UNCHANGED <<ops, shmf, os, app_data, call, trace, wire, comp, conn>>

NextGet == get

SpecGet == InitGet /\ [][NextGet]_vars

(***************************************************************************)
(* helper.rs:31-52  connect_wayland on its own: the display argument and   *)
(* the environment are given, the socket path is resolved and connected.   *)
(* A string is the sequence of its path components and separators.         *)
(***************************************************************************)
\* std::env::var: Ok(value) when the variable is set to valid Unicode, Err
\* when it is unset and Err when its value is not valid Unicode.
EnvUnset == [set |-> "unset", v |-> <<>>]
EnvNotUnicode == [set |-> "not unicode", v |-> <<>>]
EnvSet(v) == [set |-> "unicode", v |-> v]
env_var(e) == IF e.set = "unicode" THEN Some(e.v) ELSE None

\* helper.rs:35  the fixed default name
DefaultDisplay == <<"wayland-0">>

\* helper.rs:39  PathBuf::is_absolute (Unix): the path starts with a separator.
is_absolute(p) == p # <<>> /\ Head(p) = "/"

\* A push that forgets the separator.
push_Concat(base, p) == base \o p

\* helper.rs:45  PathBuf::push (Unix): an absolute argument replaces the path;
\* otherwise a separator is added unless the path is empty or ends with one.
push(base, p) ==
    IF is_absolute(p) THEN p
    ELSE IF base = <<>> \/ base[Len(base)] = "/" THEN base \o p
    ELSE base \o <<"/">> \o p

\* helper.rs:32-37  the socket file: the argument, else the variable, else the default.
socket_file(display, wayland_display) ==
    IF display # None THEN Unwrap(display)
    ELSE IF env_var(wayland_display) # None THEN Unwrap(env_var(wayland_display))
    ELSE DefaultDisplay

\* helper.rs:39-47  the socket path, or None for the `?` of line 43.
socket_path(file, xdg_runtime_dir) ==
    IF is_absolute(file) THEN Some(file)
    ELSE IF env_var(xdg_runtime_dir) = None THEN None
    ELSE Some(push(Unwrap(env_var(xdg_runtime_dir)), file))

DisplayArgs ==
    {None, Some(<<"wayland-1">>), Some(<<"/", "tmp", "/", "w">>), Some(<<>>)}
DisplayEnvs ==
    {EnvUnset, EnvNotUnicode, EnvSet(<<"wayland-2">>),
     EnvSet(<<"/", "srv", "/", "w2">>), EnvSet(<<>>)}
RuntimeDirEnvs ==
    {EnvUnset, EnvNotUnicode, EnvSet(<<"/", "run", "/", "user">>),
     EnvSet(<<"/", "run", "/">>), EnvSet(<<"rel">>)}

InitConnect ==
    /\ pc = "connect_wayland"
    /\ ops = 0
    /\ shmf = ShmFrame(0, "harness")
    /\ os = OsInit
    /\ app_data = AppDataDefault
    /\ \E d \in DisplayArgs, w \in DisplayEnvs, x \in RuntimeDirEnvs :
          call = [op |-> "connect_wayland", display |-> d,
                  WAYLAND_DISPLAY |-> w, XDG_RUNTIME_DIR |-> x, path |-> None]
    /\ ret = NoRet
    /\ trace = <<>>
    /\ wire = <<>>
    /\ comp = CompInit({}, FALSE)
    /\ conn = "ok"

\* helper.rs:32-47  resolve the socket path, or fail on the runtime directory.
resolve_socket_path ==
    /\ pc = "connect_wayland"
    /\ LET p == socket_path(socket_file(call.display, call.WAYLAND_DISPLAY),
                            call.XDG_RUNTIME_DIR)
       IN  IF p = None
           THEN /\ ret' = Err("no XDG_RUNTIME_DIR set")
                /\ pc' = "exited"
                /\ UNCHANGED call
           ELSE /\ call' = [call EXCEPT !.path = p]
                /\ pc' = "unix_connect"
                /\ UNCHANGED ret
    /\ UNCHANGED <<ops, shmf, os, app_data, trace, wire, comp, conn>>

\* helper.rs:49-50  UnixStream::connect(socket_path)
unix_connect ==
    /\ pc = "unix_connect"
    /\ trace' = trace \o <<T("connect", Unwrap(call.path), 0, 0)>>
    /\ \/ pc' = "from_socket" /\ UNCHANGED ret
       \/ pc' = "exited" /\ ret' = Err("failed to connect to unix stream")
    /\ UNCHANGED <<ops, shmf, os, app_data, call, wire, comp, conn>>

\* helper.rs:51  Connection::from_socket(socket)
from_socket ==
    /\ pc = "from_socket"
    /\ pc' = "exited"
    /\ \/ ret' = Ok(<<>>, 0)
       \/ ret' = Err("failed to connect to wayland compositor")
    /\ UNCHANGED <<ops, shmf, os, app_data, call, trace, wire, comp, conn>>

NextConnect == resolve_socket_path \/ unix_connect \/ from_socket

SpecConnect == InitConnect /\ [][NextConnect]_vars

(***************************************************************************)
(* Capture on a built session, for progress: the caller thread keeps       *)
(* running, and the compositor answers a capture request with the buffer   *)
(* description and a copy request with ready unless it answers failed.     *)
(***************************************************************************)
\* wl_output name events for the outputs among the globals.
NameEvents(globals) ==
    LET n == Cardinality({g \in globals : g > NumSingletons})
    IN  [i \in 1..n |-> Ev("output", OutputKey(i), "name", OutputNames[i], <<>>)]

\* mod.rs:47-83  what connect and wait_ouput_detected leave in AppData: the
\* globals bound, the outputs named, the keymap taken (helper.rs:70).
BuiltAppData(globals) ==
    DispatchAll(AppDataDefault, GlobalEvents(globals) \o NameEvents(globals)).app

\* Sessions that can be built: seat and both input managers advertised.
BuiltGlobals ==
    {g \in GlobalSets : {1, 2, 3} \subseteq g}

InitLive ==
    /\ pc = "idle"
    /\ ops = 0
    /\ shmf = ShmFrame(0, "harness")
    /\ os = OsInit
    /\ \E g \in BuiltGlobals :
          /\ app_data = BuiltAppData(g)
          /\ comp = [CompInit(g, TRUE) EXCEPT !.named = {n \in g : n > NumSingletons}]
    /\ call = NoCall
    /\ ret = NoRet
    /\ trace = <<>>
    /\ wire = <<>>
    /\ conn = "ok"

NextLive ==
    \/ call_screenshot
    \/ screenshot
    \/ create_shm_file
    \/ caller_resumes
    \/ CompositorBuffer
    \/ CompositorReady
    \/ CompositorFailed

\* A step of the caller thread that is not a transport failure; a round-trip
\* on a connection the compositor closed for a protocol error does fail.
ThreadRuns ==
    (screenshot \/ create_shm_file) /\ (conn' = conn \/ comp.error)

SpecLive ==
    /\ InitLive
    /\ [][NextLive]_vars
    /\ WF_vars(ThreadRuns)
    /\ WF_vars(CompositorBuffer)
    /\ WF_vars(CompositorReady)

(***************************************************************************)
(* Observations on the trace of the running operation.                     *)
(***************************************************************************)
Kinds(ks) == SelectSeq(trace, LAMBDA t : t.k \in ks)

\* What the operation did itself (the frame events it dispatched left out).
Issued ==
    Kinds({"capture_output", "create_shm_file", "create_pool", "create_buffer",
           "copy", "destroy", "read_exact", "press", "release", "sleep",
           "roundtrip"})

IsInput == call.op \in {"left_click", "right_click", "key_press"}

ResolutionErrors ==
    {"no WLOutput with name", "more that one WLOuput set",
     "at least one display need to be set"}

C1_Resolves ==
    IF call.name # None
    THEN \E o \in app_data.outputs : o.name = call.name
    ELSE Cardinality(app_data.outputs) = 1

(***************************************************************************)
(* C1.  Output resolution at the start of screenshot: with a name given it *)
(* succeeds exactly when some known output carries that name; with no name *)
(* it succeeds exactly when one output is known.  On every failing case    *)
(* the step returns an error, issues no request and leaves the session     *)
(* state and the compositor as they were.                                  *)
(***************************************************************************)
C1_OutputResolution ==
    [][(pc = "screenshot" /\ pc' # "screenshot") =>
         /\ ~C1_Resolves =>
               /\ pc' = "returned"
               /\ ret'.k = "Err" /\ ret'.why \in ResolutionErrors
               /\ trace' = trace /\ app_data' = app_data /\ comp' = comp
         /\ C1_Resolves =>
               \/ pc' = "capture_roundtrip" /\ app_data'.screencopy # None
               \/ pc' = "returned" /\ ret'.why = "no screencopy manager"]_vars

C1_Witness ==
    /\ pc = "returned" /\ call.op = "screenshot"
    /\ ret.why = "more that one WLOuput set"
    /\ call.name = None /\ Cardinality(app_data.outputs) = 2
    /\ trace = <<>> /\ app_data.screencopy = None

(***************************************************************************)
(* C2.  Every screenshot call starts with no capture request stored in the *)
(* session state and with the in-flight flag false.                        *)
(***************************************************************************)
C2_StartsClean ==
    pc = "screenshot" =>
        app_data.screencopy = None /\ ~app_data.screencopy_in_progress

(***************************************************************************)
(* C3.  When left_click, right_click or key_press returns an error, either *)
(* no press was issued or the release was issued too.                      *)
(***************************************************************************)
C3_NoPressLeftDown ==
    (pc = "returned" /\ IsInput /\ ret.k = "Err") =>
        Len(Kinds({"press"})) = Len(Kinds({"release"}))

C4_Code ==
    IF call.op = "left_click" THEN 272
    ELSE IF call.op = "right_click" THEN 273
    ELSE call.key

(***************************************************************************)
(* C4.  A successful left_click, right_click or key_press has issued       *)
(* exactly press, round-trip, sleep, release, round-trip; press and        *)
(* release carry the operation's button or key code, and the time slept is *)
(* a value the duration parameter resolves to.                             *)
(***************************************************************************)
C4_PressSleepRelease ==
    (pc = "returned" /\ IsInput /\ ret.k = "Ok") =>
        /\ [i \in 1..Len(Issued) |-> Issued[i].k]
              = <<"press", "roundtrip", "sleep", "release", "roundtrip">>
        /\ Issued[1].a = C4_Code /\ Issued[4].a = C4_Code
        /\ Issued[3].a >= Unwrap(call.value).min
        /\ Issued[3].a <= Unwrap(call.value).max

C4_Witness ==
    /\ pc = "returned" /\ call.op = "right_click" /\ ret.k = "Ok"
    /\ Unwrap(call.value).range
    /\ Issued[3] = T("sleep", 1, 0, 0)
    /\ Issued[4] = T("release", 273, 0, 0)

C5_ReadyAfterCopy ==
    \E i, j \in 1..Len(trace) :
        /\ i < j
        /\ trace[i] = T("copy", call.frame, 0, 0)
        /\ trace[j] = T("ready", call.frame, 0, 0)

(***************************************************************************)
(* C5.  The wait for the capture ends, and screenshot returns pixels, only *)
(* after a ready event of this call's frame was dispatched later than this *)
(* call's copy request; buffer, flags and failed events do not end it.     *)
(***************************************************************************)
C5_OnlyReadyEndsWait ==
    /\ (pc = "wait_ready" /\ ~app_data.screencopy_in_progress) => C5_ReadyAfterCopy
    /\ (pc = "returned" /\ call.op = "screenshot" /\ ret.k = "Ok") => C5_ReadyAfterCopy

C5_Witness ==
    /\ pc = "returned" /\ call.op = "screenshot" /\ ret.k = "Ok"
    /\ Len(Kinds({"flags"})) = 1
    /\ C5_ReadyAfterCopy

C6_Negotiated == Kinds({"buffer"})[Len(Kinds({"buffer"}))]

(***************************************************************************)
(* C6.  For every negotiated buffer description the size asked of the      *)
(* allocator, the size given to the pool and the number of bytes read are  *)
(* all 4 * width * height, and the array returned has shape                *)
(* (height, width, 4).                                                     *)
(***************************************************************************)
C6_SizesAgree ==
    call.op = "screenshot" =>
        /\ \A i \in 1..Len(trace) :
              trace[i].k \in {"create_shm_file", "read_exact"}
                 => trace[i].a = 4 * C6_Negotiated.b * C6_Negotiated.c
        /\ \A i \in 1..Len(trace) :
              trace[i].k = "create_pool"
                 => trace[i].b = 4 * C6_Negotiated.b * C6_Negotiated.c
        /\ (pc = "returned" /\ ret.k = "Ok")
              => /\ ret.shape = <<C6_Negotiated.c, C6_Negotiated.b, 4>>
                 /\ ret.bytes = 4 * C6_Negotiated.b * C6_Negotiated.c

\* C7 as worded: the k-th attempt creating the file is enough for a descriptor.
C7_Original ==
    /\ shmf.attempts <= 100
    /\ (pc = "shm_return" /\ shmf.created = 1 /\ ~shmf.other)
          => shmf.ret = "Ok"
    /\ (pc = "shm_return" /\ shmf.created = 0 /\ ~shmf.other)
          => (shmf.attempts = 100 /\ shmf.ret # "Ok")

(***************************************************************************)
(* C7.  create_shm_file makes at most 100 exclusive-create attempts; when  *)
(* the attempts before the k-th fail by name collision, the k-th creates   *)
(* the file and truncating it succeeds, it returns a descriptor; when the  *)
(* truncation fails it returns a failure; when all 100 collide it returns  *)
(* a failure, having made no 101st attempt.                                *)
(***************************************************************************)
C7_AtMost100 ==
    /\ shmf.attempts <= 100
    /\ (pc = "shm_return" /\ shmf.created = 1 /\ ~shmf.other /\ ~shmf.truncfail)
          => shmf.ret = "Ok"
    /\ (pc = "shm_return" /\ shmf.created = 1 /\ shmf.truncfail)
          => shmf.ret # "Ok"
    /\ (pc = "shm_return" /\ shmf.created = 0 /\ ~shmf.other)
          => (shmf.attempts = 100 /\ shmf.ret # "Ok")

C7_Witness ==
    /\ pc = "shm_return" /\ shmf.attempts = 100 /\ shmf.created = 1
    /\ ~shmf.other /\ shmf.ret = "Ok"

(***************************************************************************)
(* C8.  The failure create_shm_file returns is the collision-exhaustion    *)
(* failure exactly when all 100 create attempts failed because the name    *)
(* existed, and the OS-error failure exactly when a creation or the        *)
(* truncation failed for another reason.                                   *)
(***************************************************************************)
C8_FailureKinds ==
    (pc = "shm_return" /\ shmf.ret # "Ok") =>
        /\ shmf.ret = "ErrExhausted"
              <=> (shmf.attempts = 100 /\ shmf.created = 0 /\ ~shmf.other)
        /\ shmf.ret = "ErrOs" <=> (shmf.other \/ shmf.truncfail)

(***************************************************************************)
(* C9.  Every name create_shm_file creates is unlinked before the file is  *)
(* truncated or the descriptor returned: a name it created is linked only  *)
(* between the creation and the unlink that follows it.                    *)
(***************************************************************************)
C9_Unlinked ==
    /\ pc # "shm_unlink" => os.names = {}
    /\ pc = "shm_unlink" => os.names = {shmf.name}

C9_Witness ==
    /\ pc = "shm_return" /\ shmf.created = 1 /\ shmf.truncfail
    /\ os.names = {}

(***************************************************************************)
(* C10.  A screenshot call allocates at most one shared-memory descriptor, *)
(* and when it returns, with pixels or with an error of any step, every    *)
(* descriptor opened during the call has been closed.                      *)
(***************************************************************************)
C10_DescriptorsClosed ==
    /\ shmf.created <= 1
    /\ (pc = "returned" /\ call.op = "screenshot") => os.open = {}

(***************************************************************************)
(* C11.  For every range with min < max, sums beyond the u32 range         *)
(* included, get() returns a sampling error or an integer r with           *)
(* min <= r <= max, whatever sample is drawn.                              *)
(***************************************************************************)
C11_ResultInRange ==
    (pc = "got" /\ Unwrap(call.value).range
                /\ Unwrap(call.value).min < Unwrap(call.value).max)
        => \/ ret.k = "Err"
           \/ /\ ret.k = "Ok"
              /\ Unwrap(call.value).min <= ret.v
              /\ ret.v <= Unwrap(call.value).max

\* The name the statement picks when "set" means present in the environment.
C12_NameIfSet ==
    IF call.display # None THEN Unwrap(call.display)
    ELSE IF call.WAYLAND_DISPLAY.set # "unset" THEN call.WAYLAND_DISPLAY.v
    ELSE <<"wayland-0">>

\* The name when a variable counts as set only with a valid Unicode value.
C12_Name ==
    IF call.display # None THEN Unwrap(call.display)
    ELSE IF call.WAYLAND_DISPLAY.set = "unicode" THEN call.WAYLAND_DISPLAY.v
    ELSE <<"wayland-0">>

C12_Absolute(name) == name # <<>> /\ name[1] = "/"

\* The runtime directory followed by the name, one separator between them.
C12_Joined(dir, name) ==
    IF dir = <<>> \/ dir[Len(dir)] = "/" THEN dir \o name
    ELSE dir \o <<"/">> \o name

\* The statement, for a name and for the states of XDG_RUNTIME_DIR that count as set.
C12_Resolution(name, set) ==
    pc # "connect_wayland" =>
        /\ C12_Absolute(name) => call.path = Some(name)
        /\ (~C12_Absolute(name) /\ call.XDG_RUNTIME_DIR.set \in set)
              => call.path = Some(C12_Joined(call.XDG_RUNTIME_DIR.v, name))
        /\ (~C12_Absolute(name) /\ call.XDG_RUNTIME_DIR.set \notin set)
              => /\ ret = Err("no XDG_RUNTIME_DIR set")
                 /\ trace = <<>>
        /\ \A i \in 1..Len(trace) : trace[i] = T("connect", Unwrap(call.path), 0, 0)

C13_BootstrapReportsErrors ==
    (ops = 0 /\ (\/ app_data.seat = None
                 \/ app_data.vkm = None
                 \/ app_data.vpm = None
                 \/ (app_data.keymap = None /\ ~comp.keymap)
                 \/ conn = "broken"))
        => pc # "panicked"

\* Every known output has a name.
C14_AllNamed(a) == \A o \in a.outputs : o.name # None

(***************************************************************************)
(* C14.  The bootstrap wait loop hands over the session only in a state    *)
(* where no known output has an unset name, and with no output known it    *)
(* does so without dispatching anything.                                   *)
(***************************************************************************)
C14_WaitExitsNamed ==
    [][pc = "wait_ouput_detected" =>
         /\ pc' = "idle" => (C14_AllNamed(app_data) /\ app_data' = app_data)
         /\ app_data.outputs = {} =>
               \/ pc' = "idle"
               \/ pc' = pc /\ Len(wire') > Len(wire)   \* the compositor sends
         ]_vars

C14_Witness ==
    /\ pc = "idle" /\ ops = 0
    /\ Cardinality(app_data.outputs) = 2
    /\ C14_AllNamed(app_data)

(***************************************************************************)
(* C15.  After bootstrap, whatever operations ran and whatever events the  *)
(* compositor sent, an output announced late included, every known output  *)
(* has a name when a screenshot by name starts.                            *)
(***************************************************************************)
C15_NamedAtCapture ==
    (pc = "screenshot" /\ call.name # None) => C14_AllNamed(app_data)

\* The requests of one screenshot call, in the order stated.
C16_Order ==
    <<"capture_output", "create_shm_file", "create_pool", "create_buffer",
      "copy", "destroy", "read_exact">>

C16_Requests ==
    Kinds({"capture_output", "create_shm_file", "create_pool", "create_buffer",
           "copy", "destroy", "read_exact"})

\* Some entry of kind k for this call's frame lies before position i of the trace.
C16_Before(k, i) ==
    \E j \in 1..(i - 1) : trace[j].k = k /\ trace[j].a = call.frame

(***************************************************************************)
(* C16.  Within one screenshot call the requests are issued in the order   *)
(* capture_output, allocation, create_pool, create_buffer, copy, destroy,  *)
(* pixel read, each at most once; the allocation and the pool come after   *)
(* the buffer description was dispatched, and destroy and the read after   *)
(* ready was dispatched.                                                   *)
(***************************************************************************)
C16_RequestOrder ==
    call.op = "screenshot" =>
        /\ Len(C16_Requests) <= Len(C16_Order)
        /\ \A i \in 1..Len(C16_Requests) : C16_Requests[i].k = C16_Order[i]
        /\ \A i \in 1..Len(trace) :
              /\ trace[i].k \in {"create_shm_file", "create_pool"}
                    => C16_Before("buffer", i)
              /\ trace[i].k \in {"destroy", "read_exact"}
                    => C16_Before("ready", i)

C16_Witness ==
    /\ pc = "returned" /\ call.op = "screenshot" /\ ret.k = "Ok"
    /\ Len(C16_Requests) = 7
    /\ ops = 2

\* The compositor answered this call's copy with failed.
C17_Failed == \E f \in comp.frames : f.id = call.frame /\ f.st = "failed"

(***************************************************************************)
(* C17.  With a compositor that answers the capture request with a buffer  *)
(* description and the copy request with ready, a started screenshot       *)
(* eventually returns (a transport error makes it return too); once the    *)
(* copy was answered with failed and the connection stays up, the call     *)
(* stays in its wait and does not return.                                  *)
(***************************************************************************)
C17_CaptureLiveness ==
    /\ (pc = "screenshot") ~> (pc = "returned" \/ C17_Failed)
    /\ [](C17_Failed /\ conn = "ok" => pc = "wait_ready")

C17_Witness ==
    /\ pc = "wait_ready" /\ C17_Failed /\ conn = "ok"
    /\ wire = <<>>
    /\ app_data.screencopy_in_progress

(***************************************************************************)
(* C18.  Once an exclusive-create attempt of create_shm_file has failed    *)
(* for a reason other than a name collision, or a truncation has failed,   *)
(* the call makes no further create attempt; only a collision is retried.  *)
(***************************************************************************)
C18_OnlyCollisionsRetried ==
    [][(shmf.other \/ shmf.truncfail) => shmf'.attempts <= shmf.attempts]_vars

\* The five global capability handles of the session state.
C19_Handles(a) == <<a.seat, a.vkm, a.vpm, a.screencopy_manager, a.shm>>

(***************************************************************************)
(* C19.  The seat, the three managers and the shared-memory factory change *)
(* only in the initial discovery round-trip, and there from unset to set:  *)
(* no later round-trip or dispatch loop changes any of them.               *)
(***************************************************************************)
C19_HandlesSetOnce ==
    [][/\ pc # "registry_roundtrip" => C19_Handles(app_data') = C19_Handles(app_data)
       /\ \A i \in 1..5 :
             C19_Handles(app_data)[i] # None
                => C19_Handles(app_data')[i] = C19_Handles(app_data)[i]]_vars

(***************************************************************************)
(* C20.  The keymap request sent to the virtual keyboard carries the       *)
(* format, the descriptor and the size of the keymap event received from   *)
(* the physical keyboard; it is sent once that event was received and the  *)
(* virtual keyboard created, and a round-trip follows it.                  *)
(***************************************************************************)
C20_KeymapUploaded ==
    [][(pc = "upload_keymap" /\ pc' \notin {"upload_keymap", "panicked"}) =>
          /\ app_data.keymap # None /\ app_data.vkm # None /\ app_data.seat # None
          /\ trace' = Append(trace, T("keymap", Unwrap(app_data.keymap).format,
                                      Unwrap(app_data.keymap).fd,
                                      Unwrap(app_data.keymap).size))
          /\ pc' = "keymap_roundtrip"]_vars

(***************************************************************************)
(* C21.  Every name create_shm_file passes to shm_open, on the first       *)
(* attempt and on every retry, is the prefix "/wl_shm-" followed by        *)
(* exactly 6 random characters: its length is the same on every attempt.   *)
(***************************************************************************)
C21_NameLength ==
    shmf.attempts >= 1 => shmf.name = PrefixLen + RandLen

(***************************************************************************)
(* C22.  The buffer object screenshot creates at offset 0 with the         *)
(* advertised width, height and stride lies entirely inside the pool it is *)
(* created from: stride * height is at most the size given to the pool.    *)
(***************************************************************************)
C22_BufferInsidePool ==
    call.op = "screenshot" =>
        \A i \in 1..Len(trace) :
            trace[i].k = "create_buffer" =>
                \E j \in 1..(i - 1) :
                    /\ trace[j].k = "create_pool"
                    /\ trace[i].c * trace[i].b <= trace[j].b

\* The event at position i of the queue reaches its handler: the handlers of
\* the events before it returned.
C23_Dispatched(i) ==
    /\ wire # <<>> /\ wire' = <<>>
    /\ DispatchAll(app_data, SubSeq(wire, 1, i - 1)).ok

(***************************************************************************)
(* C23.  Whenever a buffer or ready event of a capture frame is            *)
(* dispatched, in a round-trip or dispatch loop of any operation, the      *)
(* session state holds a capture request: no such event is dispatched      *)
(* before a request is stored or after screenshot has cleared it.          *)
(***************************************************************************)
C23_RequestHeldAtFrameEvent ==
    [][\A i \in 1..Len(wire) :
          (/\ C23_Dispatched(i)
           /\ wire[i].obj = "frame"
           /\ IsBufferEvent(wire[i].ev) \/ IsReadyEvent(wire[i].ev))
             => app_data.screencopy # None]_vars

\* A capture that went through: its buffer and ready events were dispatched,
\* and the request is cleared.
C23_Witness ==
    /\ pc = "returned" /\ call.op = "screenshot" /\ ret.k = "Ok"
    /\ Len(Kinds({"buffer"})) = 1 /\ Len(Kinds({"ready"})) = 1
    /\ app_data.screencopy = None

=============================================================================
